---------------------------- MODULE Spec2Model ----------------------------
(***************************************************************************)
(* Portable-Shazam: the audio capture engine (src/src/audio_capture.py)    *)
(* and the listening logic of the PySide window (src/src/ui/app_pyside.py).*)
(*                                                                         *)
(* Time is counted in units of 1/DurDen second, samples in units of        *)
(* 1/SampleDen of full scale, the level as a pair <<n, k>> standing for    *)
(* n / (SampleDen * 20^k): 0.85 = 17/20 and 0.15 = 3/20 are then exact.    *)
(***************************************************************************)
EXTENDS Integers, Sequences, FiniteSets, TLC

(***************************************************************************)
(* Bounds of the model.                                                    *)
(***************************************************************************)
MaxDur == 5
MaxReads == 5
MaxSessions == 2
MaxMics == 3
MaxSinks == 3

(***************************************************************************)
(* Units.                                                                  *)
(***************************************************************************)
DurDen == 40
SampleDen == 4

\* The 0.05 s of one chunk (line 158), in units of 1/DurDen s.
ChunkDur == DurDen \div 20

SampleRates == {10, 20, 40}
ChannelCounts == {1, 2}
Durations == 0..MaxDur
Workers == {1, 2}

(***************************************************************************)
(* Names are sequences of characters.                                      *)
(***************************************************************************)
UpperChars == <<"A","B","C","D","E","F","G","H","I","J","K","L","M",
                "N","O","P","Q","R","S","T","U","V","W","X","Y","Z">>
LowerChars == <<"a","b","c","d","e","f","g","h","i","j","k","l","m",
                "n","o","p","q","r","s","t","u","v","w","x","y","z">>

\* str.lower() on one character
LowerChar(c) ==
    IF \E i \in 1..26 : UpperChars[i] = c
    THEN LowerChars[CHOOSE i \in 1..26 : UpperChars[i] = c]
    ELSE c

\* str.lower()
Lower(s) == [i \in 1..Len(s) |-> LowerChar(s[i])]

\* Python's  s in t  on strings
IsSubstring(s, t) ==
    \E i \in 0..(Len(t) - Len(s)) : SubSeq(t, i + 1, i + Len(s)) = s

loopback_keywords ==
    { <<"l","o","o","p","b","a","c","k">>,
      <<"m","o","n","i","t","o","r">>,
      <<"b","l","a","c","k","h","o","l","e">>,
      <<"s","o","u","n","d","f","l","o","w","e","r">>,
      <<"m","u","l","t","i","-","o","u","t","p","u","t">> }

\* Mutant: only the flag of the platform makes a candidate.
FlagOnly(mic) == mic.isloopback

\* mic = [name |-> <chars>, isloopback |-> BOOLEAN]; a microphone object
\* without the attribute has isloopback = FALSE (getattr's default).
is_loopback(mic) ==
    \/ mic.isloopback
    \/ \E keyword \in loopback_keywords : IsSubstring(keyword, Lower(mic.name))

FirstIndex(S) == IF S = {} THEN 0 ELSE CHOOSE i \in S : \A j \in S : i <= j

\* Mutant: only a microphone whose name contains the speaker's matches.
SpeakerNameInMicName(speaker_name, mic_name) ==
    IsSubstring(speaker_name, mic_name)

\* The speaker match of the first loop: either name contains the other.
NameMatches(speaker_name, mic_name) ==
    IsSubstring(speaker_name, mic_name) \/ IsSubstring(mic_name, speaker_name)

\* First loop: the first loopback microphone matching the default speaker.
\* speaker = [some |-> BOOLEAN, name |-> <chars>]; some = FALSE is None.
MatchingLoopback(mics, speaker) ==
    IF speaker.some
    THEN FirstIndex({i \in 1..Len(mics) :
                        is_loopback(mics[i])
                        /\ NameMatches(speaker.name, mics[i].name)})
    ELSE 0

\* Fallback loop: the first loopback microphone.
AnyLoopback(mics) == FirstIndex({i \in 1..Len(mics) : is_loopback(mics[i])})

\* The index in mics of the device recorded from, 0 when loopback is None.
FindLoopback(mics, speaker) ==
    IF MatchingLoopback(mics, speaker) # 0
    THEN MatchingLoopback(mics, speaker)
    ELSE AnyLoopback(mics)


(***************************************************************************)
(* Audio data.  A chunk is a sequence of frames, a frame a sequence of     *)
(* channel samples (the frames x channels array recorder.record returns).  *)
(***************************************************************************)
Abs(x) == IF x < 0 THEN -x ELSE x

MaxOf(S) == CHOOSE x \in S : \A y \in S : y <= x

RECURSIVE SumSeq(_)
SumSeq(s) == IF s = <<>> THEN 0 ELSE Head(s) + SumSeq(Tail(s))

\* np.concatenate(chunks, axis=0)
RECURSIVE Concatenate(_)
Concatenate(chunks) ==
    IF chunks = <<>> THEN <<>> ELSE Head(chunks) \o Concatenate(Tail(chunks))

\* float(np.abs(data).max()) of a non-empty chunk, in units of 1/SampleDen
ChunkPeak(chunk) ==
    MaxOf({Abs(chunk[i][c]) : i \in 1..Len(chunk), c \in 1..Len(chunk[1])})

\* What the recorder delivers for record(numframes=n): exactly n frames,
\* all of them one of the frames the machine is playing.
FrameChoices(ch) ==
    IF ch = 1 THEN {<<0>>, <<-4>>} ELSE {<<0, 0>>, <<2, 4>>}

\* The frames of the signals the level meter and the encoder are checked
\* on: silence, a quarter of the scale, half scale, full scale, and a
\* frame above full scale (the recorder delivers floats, which nothing
\* limits to [-1, 1]); in stereo, silence, two channels in opposition, two
\* channels that differ.
SignalFrames(ch) ==
    IF ch = 1 THEN {<<0>>, <<1>>, <<2>>, <<-4>>, <<6>>}
    ELSE {<<0, 0>>, <<4, -4>>, <<2, 4>>}

DeviceChunks(n, frames) == {[i \in 1..n |-> f] : f \in frames}

(***************************************************************************)
(* The level meter.                                                        *)
(***************************************************************************)
RECURSIVE Pow20(_)
Pow20(k) == IF k = 0 THEN 1 ELSE 20 * Pow20(k - 1)

RECURSIVE NormLevel(_)
NormLevel(l) ==
    IF l[2] > 0 /\ l[1] % 20 = 0 THEN NormLevel(<<l[1] \div 20, l[2] - 1>>) ELSE l

\* level > self._current_level
LevelRises(level, cur) == level * Pow20(cur[2]) > cur[1]

\* Mutant: the level is smoothed on the way up as on the way down.
SymmetricSmooth(cur, level) ==
    NormLevel(<<17 * cur[1] + 3 * level * Pow20(cur[2]), cur[2] + 1>>)

\* lines 171-174: quick rise, slow decay
SmoothLevel(cur, level) ==
    IF LevelRises(level, cur)
    THEN <<level, 0>>
    ELSE NormLevel(<<17 * cur[1] + 3 * level * Pow20(cur[2]), cur[2] + 1>>)

(***************************************************************************)
(* The WAV encoder.                                                        *)
(***************************************************************************)
WavHeaderLen == 44
Int16Scale == 32767

TruncDiv(a, b) == IF a >= 0 THEN a \div b ELSE -((-a) \div b)

\* astype(np.int16): truncation toward zero, then two's complement wrap
AsInt16(a, b) == ((TruncDiv(a, b) + 32768) % 65536) - 32768

\* Mutant: the first channel is kept, the others dropped.
FirstChannelOnly(frames) ==
    [i \in 1..Len(frames) |-> frames[i][1] * Len(frames[i])]

\* audio_data.mean(axis=1) when there are several channels, then flatten():
\* one number per frame, in units of 1/(SampleDen * nch)
Downmix(frames) == [i \in 1..Len(frames) |-> SumSeq(frames[i])]

\* np.clip(x, -1, 1) of the rational a/b, b > 0
Clip(a, b) == IF a > b THEN b ELSE IF a < -b THEN -b ELSE a

\* Mutant: the division by the peak is made whatever the peak, and the
\* quotient of zero by zero is cast to the 16-bit minimum.
QuantizeDividesAlways(m, p, den) ==
    IF p > 0
    THEN AsInt16(Clip(m * 9, p * 10) * 32767, p * 10)
    ELSE -32768

\* lines 202-206 for one mono sample m with peak p, both over the
\* denominator den: normalise to 0.9 of the peak, clip, quantise.
Quantize(m, p, den) ==
    IF p > 0
    THEN AsInt16(Clip(m * 9, p * 10) * Int16Scale, p * 10)
    ELSE AsInt16(Clip(m, den) * Int16Scale, den)

\* The container of a non-empty chunk list, or the exception np raises.
EncodeChunks(chunks, rate) ==
    LET frames == Concatenate(chunks)
        mono   == Downmix(frames)
    IN IF frames = <<>>
       THEN \* np.abs(audio_data).max() of a zero-size array
            [raised |-> TRUE, type |-> "ValueError",
             msg |-> "zero-size array to reduction operation maximum"]
       ELSE LET nch  == Len(frames[1])
                peak == MaxOf({Abs(mono[i]) : i \in 1..Len(mono)})
            IN [raised |-> FALSE,
                \* lines 199-200: max_amplitude < 0.001 prints a warning
                warned |-> peak * 1000 < SampleDen * nch,
                nchannels |-> 1, sampwidth |-> 2, framerate |-> rate,
                frames |-> [i \in 1..Len(mono) |->
                               Quantize(mono[i], peak, SampleDen * nch)]]

\* Mutant: the guard of lines 188-189 is missing.
ConvertToWavUnguarded(chunks, rate) == EncodeChunks(chunks, rate)

\* _convert_to_wav on a chunk list: the exception raised, or the container.
ConvertToWav(chunks, rate) ==
    IF chunks = <<>>
    THEN [raised |-> TRUE, type |-> "AudioCaptureError",
          msg |-> "No audio data recorded"]
    ELSE EncodeChunks(chunks, rate)

\* len() of the bytes wave writes: the header and the frame data
ByteLen(wav) == WavHeaderLen + Len(wav.frames) * wav.sampwidth * wav.nchannels

(***************************************************************************)
(* The machines the program runs on: platform.system(), the microphones    *)
(* sc.all_microphones(include_loopback=True) lists, sc.default_speaker().  *)
(***************************************************************************)
Speakers == <<"S","p","e","a","k","e","r","s">>
Monitor == <<" ","M","o","n","i","t","o","r">>
HDMI == <<"H","D","M","I">>
BlackHole == <<"B","l","a","c","k","H","o","l","e">>
Mic == <<"M","i","c">>

NoSpeaker == [some |-> FALSE, name |-> <<>>]
\* self._selected_device_name = None
NoSelection == [some |-> FALSE, name |-> <<>>]
Speaker(n) == [some |-> TRUE, name |-> n]
Microphone(n, flag) == [name |-> n, isloopback |-> flag]

Installations ==
    { [system |-> "Linux",
       mics |-> <<Microphone(HDMI \o Monitor, FALSE),
                  Microphone(Speakers \o Monitor, FALSE),
                  Microphone(Mic, FALSE)>>,
       speaker |-> Speaker(Speakers)],
      [system |-> "Windows",
       mics |-> <<Microphone(Mic, FALSE), Microphone(Speakers, TRUE)>>,
       speaker |-> NoSpeaker],
      [system |-> "Windows",
       mics |-> <<Microphone(Mic, FALSE)>>,
       speaker |-> Speaker(HDMI)],
      [system |-> "Darwin",
       mics |-> <<Microphone(Mic, FALSE)>>,
       speaker |-> Speaker(Speakers)],
      [system |-> "Linux",
       mics |-> <<>>,
       speaker |-> Speaker(Speakers)] }

\* The machines loopback resolution is checked on: every list of at most
\* MaxMics of these microphones, with each of these default speakers.
UpperMonitor == <<"M","O","N","I","T","O","R">>

KnownMics ==
    { Microphone(HDMI \o Monitor, FALSE),
      Microphone(Speakers \o Monitor, FALSE),
      Microphone(Mic, FALSE),
      Microphone(Speakers, TRUE),
      Microphone(BlackHole, FALSE),
      Microphone(UpperMonitor, FALSE) }

KnownSpeakers ==
    { NoSpeaker, Speaker(Speakers), Speaker(HDMI),
      Speaker(BlackHole \o <<" ","2","c","h">>) }

MicLists == UNION {[1..n -> KnownMics] : n \in 0..MaxMics}

\* Mutant: one message for every platform.
GenericNoLoopbackMessage(sys) == "No loopback device found"

\* lines 137-151: the message of the error raised when loopback is None
NoLoopbackMessage(sys) ==
    IF sys = "Darwin" THEN "No loopback device found on macOS. Please install BlackHole"
    ELSE IF sys = "Linux" THEN "No loopback device found on Linux. Make sure PulseAudio or PipeWire is running"
    ELSE "No loopback device found"

(***************************************************************************)
(* State.                                                                  *)
(***************************************************************************)
VARIABLES
    \* AudioCapture's fields
    sample_rate, channels, is_recording, recorded_data, level_callback,
    current_level, selected_device_name,
    \* the machine
    system, all_mics, default_speaker, all_speakers, playing,
    \* a call of get_audio_sources: its position, its list, the speaker its
    \* loop is at, and (history) the query that raised, "none" if none did
    enum_pc, sources, enum_i, enum_failed,
    \* each thread inside capture_audio: its position, its locals, and what
    \* its call ended with
    pc, loc, outcome,
    \* history: what each session emitted, each session's appends after a
    \* stop_recording() that found its loop running, the threads whose
    \* session a _stop_listening ended, the device reads and the
    \* capture_audio calls made so far
    events, stop_seen, stopped, appends_after_stop, reads, sessions,
    \* PortableShazamWindow: _is_listening, _is_continuous, the checked
    \* state of continuous_btn, the finish_listening signals queued for the
    \* main thread, the pending QTimer.singleShot restarts, and (history)
    \* what the last restart timer that fired did
    is_listening, is_continuous, continuous_checked, finish_queued, timers,
    last_timer

engine_vars == <<sample_rate, channels, is_recording, recorded_data,
                 level_callback, current_level, selected_device_name>>
machine_vars == <<system, all_mics, default_speaker, all_speakers, playing>>
enum_vars == <<enum_pc, sources, enum_i, enum_failed>>
thread_vars == <<pc, loc, outcome>>
history_vars == <<events, stop_seen, stopped, appends_after_stop, reads, sessions>>

ui_vars == <<is_listening, is_continuous, continuous_checked, finish_queued,
             timers, last_timer>>

vars == <<engine_vars, machine_vars, enum_vars, thread_vars, history_vars,
          ui_vars>>

Callbacks == {"None", "ok", "raises"}

NoException == [type |-> "None", msg |-> "", cause |-> ""]
Exception(t, m) == [type |-> t, msg |-> m, cause |-> ""]

NoLocals ==
    [duration |-> 0, progress_callback |-> "None", loopback |-> 0,
     total_frames |-> 0, chunk_size |-> 0, frames_recorded |-> 0,
     frames_to_record |-> 0, data |-> <<>>, exc |-> NoException,
     ret |-> <<>>, exit |-> "none"]

\* What a call ended with: kind is "returned" (value: the container) or
\* "raised" (exc: the exception).  For the histories it keeps the call's
\* duration and window, and how the loop was left: "completed" when
\* frames_recorded reached total_frames, "cancelled" when the flag was
\* found cleared before that, "none" when the loop was not left normally.
NoOutcome ==
    [kind |-> "none", value |-> <<>>, exc |-> NoException, exit |-> "none",
     duration |-> 0, total_frames |-> 0]

LoopPcs == {"loop", "record", "level", "progress"}

\* Python's min
Min(a, b) == IF a <= b THEN a ELSE b

\* __init__ (lines 31-38), for the rate and channel count given
InitEngine(rate, ch) ==
    /\ sample_rate = rate
    /\ channels = ch
    /\ is_recording = FALSE
    /\ recorded_data = <<>>
    /\ level_callback = "None"
    /\ current_level = <<0, 0>>
    /\ selected_device_name = NoSelection

\* __init__ of the window (lines 336-339); no click, signal or timer yet
InitWindow ==
    /\ is_listening = FALSE
    /\ is_continuous = FALSE
    /\ continuous_checked = FALSE
    /\ finish_queued = 0
    /\ timers = 0
    /\ last_timer = "none"

\* No call of get_audio_sources yet.
InitEnum ==
    /\ enum_pc = "idle"
    /\ sources = <<>>
    /\ enum_i = 0
    /\ enum_failed = "none"

InitThreads ==
    /\ InitEnum
    /\ pc = [w \in Workers |-> "idle"]
    /\ loc = [w \in Workers |-> NoLocals]
    /\ outcome = [w \in Workers |-> NoOutcome]
    /\ events = [w \in Workers |-> <<>>]
    /\ stop_seen = [w \in Workers |-> FALSE]
    /\ stopped = [w \in Workers |-> FALSE]
    /\ appends_after_stop = [w \in Workers |-> 0]
    /\ reads = 0
    /\ sessions = 0

\* The machine m, playing the frames given; its playback sinks are its
\* default speaker, if it has one.
InitMachine(m, frames) ==
    /\ system = m.system
    /\ all_mics = m.mics
    /\ default_speaker = m.speaker
    /\ all_speakers = IF m.speaker.some THEN <<m.speaker.name>> ELSE <<>>
    /\ playing = frames

(***************************************************************************)
(* capture_audio, statement by statement, run by thread w.                 *)
(***************************************************************************)
Goto(w, to) == pc' = [pc EXCEPT ![w] = to]

Raise(w, e) ==
    /\ loc' = [loc EXCEPT ![w].exc = e]
    /\ Goto(w, "except")

\* A thread enters capture_audio(duration=d, progress_callback=cb).
EnterCapture(w, d, cb) ==
    /\ pc[w] = "call"
    /\ sessions < MaxSessions
    /\ sessions' = sessions + 1
    /\ loc' = [loc EXCEPT ![w] = [NoLocals EXCEPT !.duration = d,
                                                  !.progress_callback = cb]]
    /\ UNCHANGED outcome
    /\ Goto(w, "reset")
    /\ UNCHANGED <<engine_vars, machine_vars, enum_vars, ui_vars, events, stop_seen, stopped,
                   appends_after_stop, reads>>

\* Mutant: the list of the session before is kept.
KeepsData(old) == old

\* line 86: the list a call starts from
FreshData(old) == <<>>

\* line 86
ResetData(w) ==
    /\ pc[w] = "reset"
    /\ recorded_data' = FreshData(recorded_data)
    /\ Goto(w, "set_flag")
    /\ UNCHANGED <<sample_rate, channels, selected_device_name, is_recording, level_callback,
                   current_level, machine_vars, enum_vars, ui_vars, loc, outcome, history_vars>>

\* line 87
SetRecording(w) ==
    /\ pc[w] = "set_flag"
    /\ is_recording' = TRUE
    /\ Goto(w, "resolve")
    /\ UNCHANGED <<sample_rate, channels, selected_device_name, recorded_data, level_callback,
                   current_level, machine_vars, enum_vars, ui_vars, loc, outcome, history_vars>>

\* lines 102-106: a query of the audio subsystem raises
ResolveFails(w) ==
    /\ pc[w] = "resolve"
    /\ Raise(w, Exception("RuntimeError", "audio subsystem"))
    /\ UNCHANGED <<engine_vars, machine_vars, enum_vars, ui_vars, outcome, history_vars>>

\* lines 156-159
TotalFrames(d, rate) == (d * rate) \div DurDen
ChunkSize(rate) == (rate * 5) \div 100

\* lines 102-159: resolve the loopback device, size the window
Resolve(w) ==
    /\ pc[w] = "resolve"
    /\ LET i == FindLoopback(all_mics, default_speaker)
       IN IF i = 0
          THEN Raise(w, Exception("AudioCaptureError", NoLoopbackMessage(system)))
          ELSE /\ loc' = [loc EXCEPT
                             ![w].loopback = i,
                             ![w].total_frames = TotalFrames(loc[w].duration, sample_rate),
                             ![w].chunk_size = ChunkSize(sample_rate),
                             ![w].frames_recorded = 0]
               /\ Goto(w, "open")
    /\ UNCHANGED <<engine_vars, machine_vars, enum_vars, ui_vars, outcome, history_vars>>

\* line 161: the recorder cannot be opened
OpenFails(w) ==
    /\ pc[w] = "open"
    /\ Raise(w, Exception("RuntimeError", "recorder"))
    /\ UNCHANGED <<engine_vars, machine_vars, enum_vars, ui_vars, outcome, history_vars>>

\* line 161
Open(w) ==
    /\ pc[w] = "open"
    /\ Goto(w, "loop")
    /\ UNCHANGED <<engine_vars, machine_vars, enum_vars, ui_vars, loc, outcome, history_vars>>

\* Mutant: the loop is entered when no frame is left to record.
LoopEntersEmptyWindow(recorded, total, recording) ==
    recorded <= total /\ recording

\* Mutant: the loop does not test the flag.
LoopIgnoresFlag(recorded, total, recording) == recorded < total

\* line 162: the loop condition
LoopContinues(recorded, total, recording) == recorded < total /\ recording

\* Mutant: every read asks for a whole chunk.
WholeChunk(chunk, total, recorded) == chunk

\* line 163
FramesToRecord(chunk, total, recorded) == Min(chunk, total - recorded)

\* lines 162-163, and the exit from the with block to line 184
LoopCheck(w) ==
    /\ pc[w] = "loop"
    /\ IF LoopContinues(loc[w].frames_recorded, loc[w].total_frames, is_recording)
       THEN /\ loc' = [loc EXCEPT ![w].frames_to_record =
                          FramesToRecord(loc[w].chunk_size, loc[w].total_frames,
                                         loc[w].frames_recorded)]
            /\ Goto(w, "record")
       ELSE /\ loc' = [loc EXCEPT ![w].exit =
                          IF loc[w].frames_recorded < loc[w].total_frames
                          THEN "cancelled" ELSE "completed"]
            /\ Goto(w, "convert")
    /\ UNCHANGED <<engine_vars, machine_vars, enum_vars, ui_vars, outcome, history_vars>>

\* line 164: the blocking read raises
RecordFails(w) ==
    /\ pc[w] = "record"
    /\ reads < MaxReads
    /\ reads' = reads + 1
    /\ Raise(w, Exception("RuntimeError", "record"))
    /\ UNCHANGED <<engine_vars, machine_vars, enum_vars, ui_vars, outcome, events, stop_seen, stopped,
                   appends_after_stop, sessions>>

\* lines 164-165: the blocking read returns and the chunk is appended
Record(w) ==
    /\ pc[w] = "record"
    /\ reads < MaxReads
    /\ reads' = reads + 1
    /\ \E chunk \in DeviceChunks(loc[w].frames_to_record, playing) :
          /\ loc' = [loc EXCEPT ![w].data = chunk]
          /\ recorded_data' = Append(recorded_data, chunk)
          /\ events' = [events EXCEPT ![w] =
                           Append(@, [kind |-> "append",
                                      pos |-> Len(recorded_data) + 1,
                                      requested |-> loc[w].frames_to_record,
                                      recording |-> is_recording,
                                      stopped |-> stopped[w]])]
    /\ appends_after_stop' = [appends_after_stop EXCEPT ![w] =
                                 IF stop_seen[w] THEN @ + 1 ELSE @]
    /\ Goto(w, "level")
    /\ UNCHANGED <<sample_rate, channels, selected_device_name, is_recording, level_callback,
                   current_level, machine_vars, enum_vars, ui_vars, outcome, stop_seen, stopped, sessions>>

\* lines 167-177: the level of the chunk just read
Level(w) ==
    /\ pc[w] = "level"
    /\ IF Len(loc[w].data) > 0
       THEN LET lvl == SmoothLevel(current_level, ChunkPeak(loc[w].data))
            IN /\ current_level' = lvl
               /\ IF level_callback = "None"
                  THEN /\ Goto(w, "progress")
                       /\ UNCHANGED <<loc, events>>
                  ELSE IF level_callback = "raises"
                  THEN /\ Raise(w, Exception("CallbackError", "level callback"))
                       /\ UNCHANGED events
                  ELSE /\ events' = [events EXCEPT ![w] =
                                        Append(@, [kind |-> "level", level |-> lvl])]
                       /\ Goto(w, "progress")
                       /\ UNCHANGED loc
       ELSE /\ Goto(w, "progress")
            /\ UNCHANGED <<current_level, loc, events>>
    /\ UNCHANGED <<sample_rate, channels, selected_device_name, is_recording, recorded_data,
                   level_callback, machine_vars, enum_vars, ui_vars, outcome, stop_seen, stopped,
                   appends_after_stop, reads, sessions>>

\* lines 179-182: count the frames, report frames_recorded / total_frames
Progress(w) ==
    /\ pc[w] = "progress"
    /\ LET done == loc[w].frames_recorded + loc[w].frames_to_record
       IN IF loc[w].progress_callback = "None"
          THEN /\ loc' = [loc EXCEPT ![w].frames_recorded = done]
               /\ Goto(w, "loop")
               /\ UNCHANGED events
          ELSE IF loc[w].progress_callback = "raises"
          THEN /\ loc' = [loc EXCEPT
                             ![w].frames_recorded = done,
                             ![w].exc = Exception("CallbackError", "progress callback")]
               /\ Goto(w, "except")
               /\ UNCHANGED events
          ELSE /\ loc' = [loc EXCEPT ![w].frames_recorded = done]
               /\ events' = [events EXCEPT ![w] =
                                Append(@, [kind |-> "progress", num |-> done,
                                           den |-> loc[w].total_frames])]
               /\ Goto(w, "loop")
    /\ UNCHANGED <<engine_vars, machine_vars, enum_vars, ui_vars, outcome, stop_seen, stopped,
                   appends_after_stop, reads, sessions>>

\* line 184: _convert_to_wav() on the chunk list as it is now
Convert(w) ==
    /\ pc[w] = "convert"
    /\ LET r == ConvertToWav(recorded_data, sample_rate)
       IN IF r.raised
          THEN Raise(w, Exception(r.type, r.msg))
          ELSE /\ loc' = [loc EXCEPT ![w].ret = r]
               /\ Goto(w, "finally")
    /\ UNCHANGED <<engine_vars, machine_vars, enum_vars, ui_vars, outcome, history_vars>>

\* Mutant: the except clause lets everything but AudioCaptureError through.
CaughtCaptureErrorsOnly(e) == e.type = "AudioCaptureError"

\* lines 91-92: which exceptions the except clause catches, and what it raises
Caught(e) == TRUE
Wrapped(e) ==
    [type |-> "AudioCaptureError", msg |-> "Audio capture failed", cause |-> e.msg]

Except(w) ==
    /\ pc[w] = "except"
    /\ loc' = [loc EXCEPT ![w].exc = IF Caught(@) THEN Wrapped(@) ELSE @]
    /\ Goto(w, "finally")
    /\ UNCHANGED <<engine_vars, machine_vars, enum_vars, ui_vars, outcome, history_vars>>

\* Mutant: no finally block.
FlagLeftAlone(flag) == flag

\* line 94: what the finally block leaves in the flag
FlagAfterCapture(flag) == FALSE

\* lines 93-94, and the call ends: it returns the bytes or raises
Finally(w) ==
    /\ pc[w] = "finally"
    /\ is_recording' = FlagAfterCapture(is_recording)
    /\ outcome' = [outcome EXCEPT ![w] =
                      [kind |-> IF loc[w].exc.type = "None"
                                THEN "returned" ELSE "raised",
                       value |-> loc[w].ret,
                       exc |-> loc[w].exc,
                       exit |-> loc[w].exit,
                       duration |-> loc[w].duration,
                       total_frames |-> loc[w].total_frames]]
    /\ loc' = [loc EXCEPT ![w] = NoLocals]
    /\ Goto(w, "done")
    /\ UNCHANGED <<sample_rate, channels, selected_device_name, recorded_data, level_callback,
                   current_level, machine_vars, enum_vars, ui_vars, history_vars>>

\* lines 218-220, called from any other thread; the history notes the
\* sessions whose loop it finds running
stop_recording ==
    /\ is_recording' = FALSE
    /\ stop_seen' = [w \in Workers |-> stop_seen[w] \/ pc[w] \in LoopPcs]

\* lines 222-224
set_level_callback(cb) == level_callback' = cb

\* lines 40-43
set_selected_device(device_name) ==
    selected_device_name' = [some |-> TRUE, name |-> device_name]

CaptureStep(w) ==
    \/ ResetData(w)
    \/ SetRecording(w)
    \/ ResolveFails(w)
    \/ Resolve(w)
    \/ OpenFails(w)
    \/ Open(w)
    \/ LoopCheck(w)
    \/ RecordFails(w)
    \/ Record(w)
    \/ Level(w)
    \/ Progress(w)
    \/ Convert(w)
    \/ Except(w)
    \/ Finally(w)

(***************************************************************************)
(* The engine used as the specification asks: one capture_audio call at a  *)
(* time, made by one thread, while another thread may call                 *)
(* stop_recording() at any moment.                                         *)
(***************************************************************************)
Init ==
    /\ \E rate \in SampleRates, ch \in ChannelCounts :
          /\ InitEngine(rate, ch)
          /\ \E m \in Installations : InitMachine(m, FrameChoices(ch))
    /\ InitThreads
    /\ InitWindow

\* The thread's call is over: what the histories kept of it is dropped.
Forget(w) ==
    /\ outcome' = [outcome EXCEPT ![w] = NoOutcome]
    /\ events' = [events EXCEPT ![w] = <<>>]
    /\ stop_seen' = [stop_seen EXCEPT ![w] = FALSE]
    /\ appends_after_stop' = [appends_after_stop EXCEPT ![w] = 0]
    /\ stopped' = [stopped EXCEPT ![w] = FALSE]

\* The calling thread is about to call capture_audio.
CallerStarts ==
    /\ pc[1] = "idle"
    /\ Goto(1, "call")
    /\ UNCHANGED <<engine_vars, machine_vars, enum_vars, ui_vars, loc, outcome,
                   history_vars>>

\* The caller installs a level callback before a capture.
CallerSetsLevelCallback ==
    /\ pc[1] = "call"
    /\ sessions < MaxSessions
    /\ \E cb \in Callbacks : set_level_callback(cb)
    /\ UNCHANGED <<sample_rate, channels, selected_device_name, is_recording, recorded_data,
                   current_level, machine_vars, enum_vars, thread_vars, history_vars,
                   ui_vars>>

CallerCaptures ==
    \E d \in Durations, cb \in Callbacks : EnterCapture(1, d, cb)

\* Another thread calls stop_recording().
OtherThreadStops ==
    /\ stop_recording
    /\ UNCHANGED <<sample_rate, channels, selected_device_name, recorded_data, level_callback,
                   current_level, machine_vars, enum_vars, thread_vars, events,
                   stopped, appends_after_stop, reads, sessions, ui_vars>>

\* The caller has the result of its call and may call again.
CallerResumes ==
    /\ pc[1] = "done"
    /\ Goto(1, "call")
    /\ Forget(1)
    /\ UNCHANGED <<engine_vars, machine_vars, enum_vars, ui_vars, loc, reads, sessions>>

Next ==
    \/ CallerStarts
    \/ CallerSetsLevelCallback
    \/ CallerCaptures
    \/ CaptureStep(1)
    \/ OtherThreadStops
    \/ CallerResumes

Spec == Init /\ [][Next]_vars

(***************************************************************************)
(* The level meter and the encoder on richer signals: captures of the      *)
(* longest window at the highest rate, on a machine with a loopback        *)
(* device, with no stop_recording().                                       *)
(***************************************************************************)
SignalMachine ==
    CHOOSE m \in Installations : m.system = "Linux" /\ m.mics # <<>>

InitSignal ==
    /\ \E ch \in ChannelCounts :
          /\ InitEngine(MaxOf(SampleRates), ch)
          /\ InitMachine(SignalMachine, SignalFrames(ch))
    /\ InitThreads
    /\ InitWindow

CallerCapturesWindow == EnterCapture(1, MaxDur, "None")

NextSignal ==
    \/ CallerStarts
    \/ CallerSetsLevelCallback
    \/ CallerCapturesWindow
    \/ CaptureStep(1)
    \/ CallerResumes

SpecSignal == InitSignal /\ [][NextSignal]_vars

(***************************************************************************)
(* Loopback resolution alone: a capture on any of the known machines, up   *)
(* to the point where the device is resolved or the call has failed.       *)
(***************************************************************************)
InitResolve ==
    /\ InitEngine(MaxOf(SampleRates), 1)
    /\ system \in {"Darwin", "Linux", "Windows"}
    /\ all_mics \in MicLists
    /\ default_speaker \in KnownSpeakers
    /\ all_speakers = <<>>
    /\ playing = FrameChoices(1)
    /\ InitThreads
    /\ InitWindow

CallerCapturesNothing == EnterCapture(1, 0, "None")

\* The caller picks the device of one of the known speakers, or another one
\* after that, before it captures.
CallerSelectsDevice ==
    /\ pc[1] = "idle"
    /\ \E s \in KnownSpeakers :
          /\ s.some
          /\ s.name # selected_device_name.name
          /\ set_selected_device(s.name)
    /\ UNCHANGED <<sample_rate, channels, is_recording, recorded_data,
                   level_callback, current_level, machine_vars, enum_vars,
                   thread_vars, history_vars, ui_vars>>

NextResolve ==
    \/ CallerSelectsDevice
    \/ CallerStarts
    \/ CallerCapturesNothing
    \/ ResetData(1)
    \/ SetRecording(1)
    \/ ResolveFails(1)
    \/ Resolve(1)
    \/ Except(1)
    \/ Finally(1)

SpecResolve == InitResolve /\ [][NextResolve]_vars

(***************************************************************************)
(* get_audio_sources (lines 45-82), statement by statement, on a machine   *)
(* with any default speaker and any list of at most MaxSinks playback      *)
(* sinks.  A name may hold a character that ASCII cannot encode.           *)
(***************************************************************************)
NonAsciiChars == {"U+00E9"}

Cafe == <<"C","a","f","U+00E9">>

KnownSinks == {Speakers, HDMI, Cafe}

SinkLists == UNION {[1..n -> KnownSinks] : n \in 0..MaxSinks}

\* name.encode('ascii', 'replace').decode()
AsciiReplace(name) ==
    [i \in 1..Len(name) |-> IF name[i] \in NonAsciiChars THEN "?" ELSE name[i]]

DefaultSuffix == <<" ","(","D","e","f","a","u","l","t",")">>

\* AudioSource(name=..., process_id=...); volume and is_muted keep their
\* defaults
AudioSource(n, pid) == [name |-> n, process_id |-> pid]

\* lines 60-63
DefaultSource(speaker) == AudioSource(AsciiReplace(speaker.name) \o DefaultSuffix, 0)

\* lines 74-77
OtherSource(speaker_name) == AudioSource(AsciiReplace(speaker_name), -2)

\* line 80
SystemAudio ==
    AudioSource(<<"S","y","s","t","e","m"," ","A","u","d","i","o">>, 0)

\* Mutant: every speaker is listed.
SkipsNothing(speaker_name, default) == FALSE

\* line 67
SkipsSpeaker(speaker_name, default) ==
    default.some /\ speaker_name = default.name

\* Mutant: the except clause adds nothing.
NoFallback(srcs) == srcs

\* line 80
FallbackSources(srcs) == Append(srcs, SystemAudio)

InitSources ==
    /\ InitEngine(MaxOf(SampleRates), 1)
    /\ system \in {"Darwin", "Linux", "Windows"}
    /\ all_mics = <<>>
    /\ default_speaker \in {NoSpeaker} \cup {Speaker(n) : n \in KnownSinks}
    /\ all_speakers \in SinkLists
    /\ playing = FrameChoices(1)
    /\ InitThreads
    /\ InitWindow

EnumUnchanged ==
    UNCHANGED <<engine_vars, machine_vars, thread_vars, history_vars, ui_vars>>

\* line 47
GetAudioSources ==
    /\ enum_pc = "idle"
    /\ enum_pc' = "default"
    /\ sources' = <<>>
    /\ UNCHANGED <<enum_i, enum_failed>>
    /\ EnumUnchanged

\* line 50: soundcard cannot be imported
ImportFails ==
    /\ enum_pc = "default"
    /\ enum_pc' = "except"
    /\ enum_failed' = "import"
    /\ UNCHANGED <<sources, enum_i>>
    /\ EnumUnchanged

\* line 53: sc.default_speaker() raises
DefaultSpeakerFails ==
    /\ enum_pc = "default"
    /\ enum_pc' = "except"
    /\ enum_failed' = "default_speaker"
    /\ UNCHANGED <<sources, enum_i>>
    /\ EnumUnchanged

\* lines 53-63
ListDefaultSpeaker ==
    /\ enum_pc = "default"
    /\ sources' = IF default_speaker.some
                  THEN Append(sources, DefaultSource(default_speaker))
                  ELSE sources
    /\ enum_pc' = "speakers"
    /\ UNCHANGED <<enum_i, enum_failed>>
    /\ EnumUnchanged

\* line 66: sc.all_speakers() raises
AllSpeakersFails ==
    /\ enum_pc = "speakers"
    /\ enum_pc' = "except"
    /\ enum_failed' = "all_speakers"
    /\ UNCHANGED <<sources, enum_i>>
    /\ EnumUnchanged

\* line 66: sc.all_speakers() returns
AllSpeakers ==
    /\ enum_pc = "speakers"
    /\ enum_pc' = "loop"
    /\ enum_i' = 1
    /\ UNCHANGED <<sources, enum_failed>>
    /\ EnumUnchanged

\* lines 66-77: one turn of the loop, or its end and the return of line 82
ListSpeaker ==
    /\ enum_pc = "loop"
    /\ IF enum_i <= Len(all_speakers)
       THEN /\ sources' = IF SkipsSpeaker(all_speakers[enum_i], default_speaker)
                          THEN sources
                          ELSE Append(sources, OtherSource(all_speakers[enum_i]))
            /\ enum_i' = enum_i + 1
            /\ UNCHANGED enum_pc
       ELSE /\ enum_pc' = "done"
            /\ UNCHANGED <<sources, enum_i>>
    /\ UNCHANGED enum_failed
    /\ EnumUnchanged

\* lines 79-82: the except clause, then the return
EnumExcept ==
    /\ enum_pc = "except"
    /\ sources' = FallbackSources(sources)
    /\ enum_pc' = "done"
    /\ UNCHANGED <<enum_i, enum_failed>>
    /\ EnumUnchanged

NextSources ==
    \/ GetAudioSources
    \/ ImportFails
    \/ DefaultSpeakerFails
    \/ ListDefaultSpeaker
    \/ AllSpeakersFails
    \/ AllSpeakers
    \/ ListSpeaker
    \/ EnumExcept

SpecSources == InitSources /\ [][NextSources]_vars

(***************************************************************************)
(* The PySide window: the main thread runs the click, signal and timer     *)
(* handlers one at a time; every _start_listening starts a thread that     *)
(* runs _record_and_identify.  The window's engine is AudioCapture() and   *)
(* its window RECORDING_DURATION, scaled here to the largest rate and      *)
(* duration of the model.  Handlers that only touch widgets are left out.  *)
(***************************************************************************)
InitUI ==
    /\ InitEngine(MaxOf(SampleRates), 1)
    /\ \E m \in {i \in Installations : i.system # "Windows"} :
          InitMachine(m, {<<-4>>})
    /\ InitThreads
    /\ InitWindow

\* A thread can be started: the model has a thread and a session left.
CanStart ==
    /\ \E w \in Workers : pc[w] = "idle"
    /\ sessions + Cardinality({w \in Workers : pc[w] = "call"}) < MaxSessions

NewThread == CHOOSE w \in Workers : pc[w] = "idle" /\ \A v \in Workers : pc[v] = "idle" => w <= v

\* _start_listening (lines 639-650)
StartListening ==
    /\ CanStart
    /\ is_listening' = TRUE
    /\ set_level_callback("ok")
    /\ pc' = [pc EXCEPT ![NewThread] = "call"]
    /\ UNCHANGED <<sample_rate, channels, selected_device_name, is_recording, recorded_data,
                   current_level, machine_vars, enum_vars, loc, outcome, history_vars,
                   finish_queued, timers, last_timer>>

\* The positions of a thread that has been started and has not yet
\* checked _is_listening after capture_audio (line 682).
BeforeCheck == {"call", "reset", "set_flag", "resolve", "open", "loop", "record",
                "level", "progress", "convert", "except", "finally", "done"}

\* _stop_listening (lines 652-660); stopped remembers the threads whose
\* session this STOP ends.
StopListening ==
    /\ is_listening' = FALSE
    /\ is_continuous' = FALSE
    /\ continuous_checked' = FALSE
    /\ stop_recording
    /\ stopped' = [w \in Workers |-> stopped[w] \/ pc[w] \in BeforeCheck]
    /\ UNCHANGED <<sample_rate, channels, selected_device_name, recorded_data, level_callback,
                   current_level, machine_vars, enum_vars, thread_vars, events,
                   appends_after_stop, reads, sessions, finish_queued, timers,
                   last_timer>>

\* A click on listen_btn: _toggle_listening (lines 633-637)
ClickListen ==
    IF is_listening
    THEN StopListening
    ELSE StartListening /\ UNCHANGED <<is_continuous, continuous_checked>>

\* A click on continuous_btn toggles it, then _toggle_continuous
\* (lines 662-671) runs.
ClickContinuous ==
    /\ continuous_checked' = ~continuous_checked
    /\ is_continuous' = ~continuous_checked
    /\ IF ~continuous_checked /\ ~is_listening
       THEN StartListening
       ELSE UNCHANGED <<engine_vars, machine_vars, enum_vars, thread_vars, history_vars,
                        is_listening, finish_queued, timers, last_timer>>

\* The thread calls capture_audio (lines 675-680).
ThreadCaptures(w) == EnterCapture(w, MaxDur, "ok")

\* The same call with a window of one chunk.
ThreadCapturesChunk(w) == EnterCapture(w, ChunkDur, "ok")

\* lines 682-699: after capture_audio, the thread gives up when the call
\* raised or the window no longer listens, else goes on to identify
AfterCapture(w) ==
    /\ pc[w] = "done"
    /\ IF outcome[w].kind = "raised" \/ ~is_listening
       THEN Goto(w, "finish")
       ELSE Goto(w, "identify")
    /\ UNCHANGED <<engine_vars, machine_vars, enum_vars, loc, outcome, history_vars,
                   ui_vars>>

\* lines 685-688: api_client.identify(audio_data), then the results or the
\* error are signalled
Identify(w) ==
    /\ pc[w] = "identify"
    /\ Goto(w, "finish")
    /\ UNCHANGED <<engine_vars, machine_vars, enum_vars, loc, outcome, history_vars,
                   ui_vars>>

\* lines 696-699: the finally block queues finish_listening; the thread ends
EmitFinish(w) ==
    /\ pc[w] = "finish"
    /\ finish_queued' = finish_queued + 1
    /\ Goto(w, "idle")
    /\ Forget(w)
    /\ UNCHANGED <<engine_vars, machine_vars, enum_vars, loc, reads, sessions,
                   is_listening, is_continuous, continuous_checked, timers,
                   last_timer>>

\* The main thread delivers a finish_listening signal: _finish_listening
\* (lines 701-718)
FinishListening ==
    /\ finish_queued > 0
    /\ finish_queued' = finish_queued - 1
    /\ is_listening' = FALSE
    /\ timers' = IF is_continuous THEN timers + 1 ELSE timers
    /\ UNCHANGED <<engine_vars, machine_vars, enum_vars, thread_vars, history_vars,
                   is_continuous, continuous_checked, last_timer>>

\* line 727 as it would be without the look at the button
RestartUnlessListening(checked, listening) == ~listening

\* line 727: self.continuous_btn.isChecked() and not self._is_listening
RestartAllowed(checked, listening) == checked /\ ~listening

\* A restart timer fires: _auto_restart_listening (lines 720-732)
AutoRestartListening ==
    /\ timers > 0
    /\ timers' = timers - 1
    /\ last_timer' = IF RestartAllowed(continuous_checked, is_listening)
                     THEN "restarted" ELSE "refused"
    /\ IF RestartAllowed(continuous_checked, is_listening)
       THEN /\ is_continuous' = TRUE
            /\ CanStart
            /\ is_listening' = TRUE
            /\ set_level_callback("ok")
            /\ pc' = [pc EXCEPT ![NewThread] = "call"]
            /\ UNCHANGED <<sample_rate, channels, selected_device_name, is_recording, recorded_data,
                           current_level, machine_vars, enum_vars, loc, outcome,
                           history_vars, continuous_checked, finish_queued>>
       ELSE UNCHANGED <<engine_vars, machine_vars, enum_vars, thread_vars, history_vars,
                        is_listening, is_continuous, continuous_checked,
                        finish_queued>>

ThreadStep(w) ==
    \/ ThreadCaptures(w)
    \/ CaptureStep(w)
    \/ AfterCapture(w)
    \/ Identify(w)
    \/ EmitFinish(w)

NextUI ==
    \/ ClickListen
    \/ ClickContinuous
    \/ FinishListening
    \/ AutoRestartListening
    \/ \E w \in Workers : ThreadStep(w)

SpecUI == InitUI /\ [][NextUI]_vars

(***************************************************************************)
(* The same window with RECORDING_DURATION scaled to one chunk, for the    *)
(* properties of continuous mode, where the sessions that follow one       *)
(* another matter and the chunks inside one session do not.                *)
(***************************************************************************)
ThreadStepChunk(w) ==
    \/ ThreadCapturesChunk(w)
    \/ CaptureStep(w)
    \/ AfterCapture(w)
    \/ Identify(w)
    \/ EmitFinish(w)

NextContinuous ==
    \/ ClickListen
    \/ ClickContinuous
    \/ FinishListening
    \/ AutoRestartListening
    \/ \E w \in Workers : ThreadStepChunk(w)

SpecContinuous == InitUI /\ [][NextContinuous]_vars

(***************************************************************************)
(* Properties.                                                             *)
(***************************************************************************)
InCapture == {"reset", "set_flag", "resolve", "open", "loop", "record",
              "level", "progress", "convert", "except", "finally"}

Appends(w) == {i \in 1..Len(events[w]) : events[w][i].kind = "append"}

\* The frames of the chunks now in the list.
FramesHeld == Len(Concatenate(recorded_data))

IsCaptureError(o) == o.kind = "raised" /\ o.exc.type = "AudioCaptureError"

\* C1: every call of capture_audio ends in one of two ways: it returns the
\* container the encoder builds from a list of at least one chunk, or it
\* raises AudioCaptureError; nothing else escapes, and nothing is returned
\* from an empty list.
C1_BytesOrCaptureError ==
    \A w \in Workers :
        pc[w] = "done" =>
            \/ /\ outcome[w].kind = "returned"
               /\ Len(recorded_data) >= 1
               /\ outcome[w].value = EncodeChunks(recorded_data, sample_rate)
               /\ ~outcome[w].value.raised
            \/ IsCaptureError(outcome[w])

\* A read fails after a chunk was recorded: the call raises AudioCaptureError.
C1_Witness ==
    /\ pc[1] = "done"
    /\ outcome[1].kind = "raised"
    /\ outcome[1].exc.cause = "record"
    /\ Len(recorded_data) >= 1

\* C2: once stop_recording() has found a session's loop running, that
\* session appends at most one more chunk, the one whose read was in flight,
\* and starts no further read: the loop ends with frames still to record.
C2_StopWithinOneChunk ==
    /\ [](\A w \in Workers : stop_seen[w] => appends_after_stop[w] <= 1)
    /\ [][\A w \in Workers :
             (stop_seen[w] /\ pc[w] = "loop") => pc'[w] # "record"]_vars

\* Stopped during the first read of a window of three chunks: one chunk is
\* appended and the loop is left with frames still to record.
C2_Witness ==
    /\ stop_seen[1]
    /\ appends_after_stop[1] = 1
    /\ pc[1] = "convert"
    /\ loc[1].exit = "cancelled"
    /\ Len(recorded_data) = 1
    /\ loc[1].total_frames - loc[1].frames_recorded > loc[1].chunk_size

\* C3: a capture cancelled before its first chunk records nothing and
\* raises AudioCaptureError for the empty recording.
C3_CancelledBeforeFirstChunk ==
    \A w \in Workers :
        pc[w] = "done" /\ outcome[w].exit = "cancelled" /\ Appends(w) = {}
            => /\ IsCaptureError(outcome[w])
               /\ outcome[w].exc.cause = "No audio data recorded"
               /\ recorded_data = <<>>

C3_Witness ==
    /\ pc[1] = "done"
    /\ outcome[1].exit = "cancelled"
    /\ Appends(1) = {}
    /\ outcome[1].total_frames > 0
    /\ IsCaptureError(outcome[1])

\* C4 as claimed: a capture cancelled after k >= 1 chunks returns a
\* non-empty container of 44 bytes plus 2 bytes per frame of those chunks.
C4_CancelledAfterChunksReturns ==
    \A w \in Workers :
        pc[w] = "done" /\ outcome[w].exit = "cancelled" /\ Appends(w) # {}
            => /\ outcome[w].kind = "returned"
               /\ Len(outcome[w].value.frames) >= 1
               /\ ByteLen(outcome[w].value) = 44 + 2 * FramesHeld

\* C4 where every chunk holds a frame (chunk_size >= 1): it holds there.
C4_CancelledAfterFramesReturns ==
    \A w \in Workers :
        pc[w] = "done" /\ outcome[w].exit = "cancelled" /\ Appends(w) # {}
        /\ ChunkSize(sample_rate) >= 1
            => /\ outcome[w].kind = "returned"
               /\ Len(outcome[w].value.frames) >= 1
               /\ ByteLen(outcome[w].value) = 44 + 2 * FramesHeld

C6_AppendOnlyWhileRecording ==
    \A w \in Workers :
        \A i \in Appends(w) : events[w][i].recording

\* C8: whenever no capture_audio call is in progress, after a return as
\* after any exception, the recording flag is false.
C8_FlagResetOnExit ==
    (\A w \in Workers : pc[w] \notin InCapture) => ~is_recording

\* The call failed for want of a loopback device and the flag is false.
C8_Witness ==
    /\ pc[1] = "done"
    /\ IsCaptureError(outcome[1])
    /\ outcome[1].exc.cause = NoLoopbackMessage(system)
    /\ ~is_recording

\* The events of a session with both callbacks installed, in the order
\* claimed: per chunk its append at the next position, its level, its
\* progress; the progress values in (0,1] and strictly increasing.
InClaimedOrder(ev) ==
    /\ \A j \in 1..Len(ev) :
          /\ j % 3 = 1 => ev[j].kind = "append" /\ ev[j].pos = (j + 2) \div 3
          /\ j % 3 = 2 => ev[j].kind = "level"
          /\ j % 3 = 0 => /\ ev[j].kind = "progress"
                          /\ 0 < ev[j].num /\ ev[j].num <= ev[j].den
    /\ \A j \in 4..Len(ev) :
          (j % 3 = 0 /\ ev[j].kind = "progress" /\ ev[j - 3].kind = "progress")
              => ev[j - 3].num < ev[j].num

\* C9 as claimed: chunks, levels and progress come in capture order, the
\* progress values are strictly increasing in (0,1], and the last one of a
\* capture that was not cancelled is 1.
C9_EventsInCaptureOrder ==
    \A w \in Workers :
        (pc[w] \in LoopPcs \cup {"convert"}
         /\ level_callback = "ok" /\ loc[w].progress_callback = "ok")
            => /\ InClaimedOrder(events[w])
               /\ (loc[w].exit = "completed" /\ events[w] # <<>>)
                     => LET last == events[w][Len(events[w])]
                        IN last.kind = "progress" /\ last.num = last.den

\* C9 where every chunk holds a frame (chunk_size >= 1): it holds there.
C9_EventsInCaptureOrderOfFrames ==
    \A w \in Workers :
        (pc[w] \in LoopPcs \cup {"convert"}
         /\ level_callback = "ok" /\ loc[w].progress_callback = "ok"
         /\ ChunkSize(sample_rate) >= 1)
            => /\ InClaimedOrder(events[w])
               /\ (loc[w].exit = "completed" /\ events[w] # <<>>)
                     => LET last == events[w][Len(events[w])]
                        IN last.kind = "progress" /\ last.num = last.den

\* The loopback candidates of the machine, and those among them whose name
\* contains, or is contained in, the default speaker's.
Candidates == {i \in 1..Len(all_mics) : is_loopback(all_mics[i])}

MatchingCandidates ==
    {i \in Candidates :
        /\ default_speaker.some
        /\ \/ IsSubstring(default_speaker.name, all_mics[i].name)
           \/ IsSubstring(all_mics[i].name, default_speaker.name)}

\* C10: the device recorded from is the first candidate, in enumeration
\* order, that matches the default speaker's name, wherever the candidates
\* that do not match are listed; when none matches, or there is no default
\* speaker, it is the first candidate.
C10_ResolutionPolicy ==
    pc[1] = "open" =>
        /\ loc[1].loopback \in Candidates
        /\ MatchingCandidates # {}
              => /\ loc[1].loopback \in MatchingCandidates
                 /\ \A i \in MatchingCandidates : loc[1].loopback <= i
        /\ MatchingCandidates = {}
              => \A i \in Candidates : loc[1].loopback <= i

\* "HDMI Monitor" is listed before "Speakers Monitor" and the default
\* speaker is "Speakers": "Speakers Monitor" is recorded from.
C10_Witness ==
    /\ pc[1] = "open"
    /\ Len(all_mics) >= 2
    /\ all_mics[1].name = HDMI \o Monitor
    /\ all_mics[2].name = Speakers \o Monitor
    /\ default_speaker = Speaker(Speakers)
    /\ loc[1].loopback = 2

\* The candidates whose name contains, or is contained in, the name of the
\* device the caller selected.
PreferredCandidates ==
    {i \in Candidates :
        /\ selected_device_name.some
        /\ \/ IsSubstring(selected_device_name.name, all_mics[i].name)
           \/ IsSubstring(all_mics[i].name, selected_device_name.name)}

\* C11 as claimed: the device selected with set_selected_device is the
\* speaker name of policy step a: the device recorded from is the first
\* candidate matching the selected name, when there is one.
C11_SelectionBreaksTies ==
    (pc[1] = "open" /\ PreferredCandidates # {})
        => /\ loc[1].loopback \in PreferredCandidates
           /\ \A i \in PreferredCandidates : loc[1].loopback <= i

\* C12: on a machine that lists no loopback candidate, a capture whose
\* queries of the audio subsystem succeed raises AudioCaptureError with the
\* text of its platform, without going on to open a recorder: nothing is
\* appended, no level or progress is emitted, and the flag is false after.
C12_NoLoopbackFailsBeforeOpen ==
    /\ [](\A w \in Workers :
            (pc[w] = "done" /\ Candidates = {}
             /\ outcome[w].exc.cause # "audio subsystem")
                => /\ IsCaptureError(outcome[w])
                   /\ outcome[w].exc.cause =
                         CASE system = "Darwin" ->
                                "No loopback device found on macOS. Please install BlackHole"
                           [] system = "Linux" ->
                                "No loopback device found on Linux. Make sure PulseAudio or PipeWire is running"
                           [] OTHER -> "No loopback device found"
                   /\ events[w] = <<>>
                   /\ recorded_data = <<>>
                   /\ ~is_recording)
    /\ [][\A w \in Workers :
             (pc[w] = "resolve" /\ Candidates = {})
                 => pc'[w] \in {"resolve", "except"}]_vars

\* On macOS with a microphone only and a level callback installed, the
\* call has raised the macOS text.
C12_Witness ==
    /\ pc[1] = "done"
    /\ system = "Darwin"
    /\ all_mics # <<>>
    /\ Candidates = {}
    /\ level_callback = "ok"
    /\ IsCaptureError(outcome[1])
    /\ outcome[1].exc.cause = "No loopback device found on macOS. Please install BlackHole"
    /\ ~is_recording

\* C13 as claimed: whenever a query of get_audio_sources raised, the list
\* returned is the one source "System Audio".
C13_FailureGivesFallbackOnly ==
    (enum_pc = "done" /\ enum_failed # "none") => sources = <<SystemAudio>>

\* C13 amended: get_audio_sources returns whichever query raises; the list
\* then ends with "System Audio", after the sources listed before the
\* failure: alone when the import or default_speaker() failed, after the
\* default speaker, if there is one, when all_speakers() failed.
C13_FailureEndsWithFallback ==
    /\ enum_pc \in {"idle", "default", "speakers", "loop", "except", "done"}
    /\ (enum_pc = "done" /\ enum_failed # "none")
          => /\ sources # <<>>
             /\ sources[Len(sources)] = SystemAudio
             /\ enum_failed \in {"import", "default_speaker"}
                   => sources = <<SystemAudio>>
             /\ enum_failed = "all_speakers"
                   => sources =
                        IF default_speaker.some
                        THEN << [name |-> AsciiReplace(default_speaker.name)
                                            \o DefaultSuffix,
                                 process_id |-> 0],
                                SystemAudio >>
                        ELSE <<SystemAudio>>

\* all_speakers() raised after the default speaker was listed.
C13_Witness ==
    /\ enum_pc = "done"
    /\ enum_failed = "all_speakers"
    /\ default_speaker.some
    /\ Len(sources) = 2
    /\ sources[2] = SystemAudio

\* The speakers of the machine other than the default one, in order.
RECURSIVE OtherSpeakers(_)
OtherSpeakers(names) ==
    IF names = <<>> THEN <<>>
    ELSE IF default_speaker.some /\ Head(names) = default_speaker.name
         THEN OtherSpeakers(Tail(names))
         ELSE <<Head(names)>> \o OtherSpeakers(Tail(names))

\* C14: when no query raised, the list is the default speaker, if there is
\* one, marked as the default, then the other sinks in enumeration order,
\* none of them a sink with the default's name.
C14_DefaultFirstAndOnce ==
    (enum_pc = "done" /\ enum_failed = "none")
        => LET others == OtherSpeakers(all_speakers)
               first  == IF default_speaker.some THEN 1 ELSE 0
           IN /\ Len(sources) = first + Len(others)
              /\ default_speaker.some
                    => sources[1] = [name |-> AsciiReplace(default_speaker.name)
                                                \o DefaultSuffix,
                                     process_id |-> 0]
              /\ \A i \in 1..Len(others) :
                    /\ sources[first + i] = [name |-> AsciiReplace(others[i]),
                                             process_id |-> -2]
                    /\ default_speaker.some => others[i] # default_speaker.name
              /\ \A i \in 2..Len(sources) : sources[i].process_id # 0

\* The default speaker is the second of three sinks: it is listed first
\* and once.
C14_Witness ==
    /\ enum_pc = "done"
    /\ enum_failed = "none"
    /\ default_speaker = Speaker(HDMI)
    /\ all_speakers = <<Cafe, HDMI, Speakers>>
    /\ Len(sources) = 3
    /\ sources[2].name = <<"C","a","f","?">>

\* The largest magnitude among the samples of a chunk.
Instant(chunk) ==
    CHOOSE x \in 0..(2 * SampleDen) :
        /\ \E i \in 1..Len(chunk) : \E c \in 1..Len(chunk[i]) :
              x = IF chunk[i][c] < 0 THEN -chunk[i][c] ELSE chunk[i][c]
        /\ \A i \in 1..Len(chunk) : \A c \in 1..Len(chunk[i]) :
              chunk[i][c] <= x /\ -chunk[i][c] <= x

\* C15: for every chunk of at least one frame, with instant the largest
\* magnitude of its samples, the level becomes instant when instant is
\* above the previous level, and previous * 0.85 + instant * 0.15 when it
\* is not (previous * 0.85 for a chunk of zeros); that level is what the
\* callback is given.
C15_AsymmetricLevel ==
    [][\A w \in Workers :
          (pc[w] = "level" /\ pc'[w] # "level" /\ Len(loc[w].data) > 0)
              => LET instant == Instant(loc[w].data)
                     n == current_level[1]
                     k == current_level[2]
                 IN /\ IF instant * Pow20(k) > n
                       THEN current_level' = <<instant, 0>>
                       ELSE current_level' =
                              NormLevel(<<17 * n + 3 * instant * Pow20(k), k + 1>>)
                    /\ (instant = 0 /\ n > 0)
                          => current_level' = NormLevel(<<17 * n, k + 1>>)
                    /\ level_callback = "ok"
                          => events'[w] = Append(events[w],
                                [kind |-> "level", level |-> current_level'])]_vars

\* A session gave the callback full scale for a spike, then 0.85 and
\* 0.85 * 0.85 of it for the two chunks of zeros that followed.
C15_Witness ==
    /\ Len(events[1]) >= 6
    /\ events[1][2] = [kind |-> "level", level |-> <<4, 0>>]
    /\ events[1][4] = [kind |-> "level", level |-> <<68, 1>>]
    /\ events[1][6] = [kind |-> "level", level |-> <<1156, 2>>]
    /\ recorded_data[2] = <<(<<0>>), (<<0>>)>>

\* A session of rising peaks gave the callback the peak each time.
C15_WitnessRising ==
    /\ Len(events[1]) >= 6
    /\ events[1][2] = [kind |-> "level", level |-> <<2, 0>>]
    /\ events[1][4] = [kind |-> "level", level |-> <<4, 0>>]
    /\ events[1][6] = [kind |-> "level", level |-> <<6, 0>>]

\* C16 as claimed: the level is in [0,1] in every reachable state.
C16_LevelInUnitRange ==
    /\ 0 <= current_level[1]
    /\ current_level[1] <= SampleDen * Pow20(current_level[2])

\* C16 where the device delivers no sample above full scale: it holds.
C16_LevelInUnitRangeAtFullScale ==
    (\A f \in playing : \A c \in 1..Len(f) : f[c] <= SampleDen /\ -f[c] <= SampleDen)
        => /\ 0 <= current_level[1]
           /\ current_level[1] <= SampleDen * Pow20(current_level[2])

\* C20: the container of a stereo capture holds, for each frame, the mean
\* of the frame's two samples, normalised to 0.9 of the largest magnitude
\* among those means and quantised; when every mean is zero, zeros.
C20_DownmixIsMeanBeforePeak ==
    \A w \in Workers :
        (pc[w] = "done" /\ outcome[w].kind = "returned" /\ channels = 2)
            => LET frames == Concatenate(recorded_data)
                   sum(i) == frames[i][1] + frames[i][2]
                   mag(i) == IF sum(i) < 0 THEN -sum(i) ELSE sum(i)
                   peak   == CHOOSE x \in {mag(i) : i \in 1..Len(frames)} :
                                \A i \in 1..Len(frames) : mag(i) <= x
                   out    == outcome[w].value.frames
               IN /\ Len(out) = Len(frames)
                  /\ \A i \in 1..Len(frames) :
                        IF peak = 0 THEN out[i] = 0
                        ELSE IF sum(i) >= 0
                        THEN out[i] = (sum(i) * 9 * 32767) \div (10 * peak)
                        ELSE out[i] = -((mag(i) * 9 * 32767) \div (10 * peak))

\* One channel all 1.0, the other all -1.0, over the whole window: the
\* container holds a zero for every frame.
C20_Witness ==
    /\ pc[1] = "done"
    /\ outcome[1].kind = "returned"
    /\ channels = 2
    /\ Len(recorded_data) = 3
    /\ \A j \in 1..3 : \A i \in 1..Len(recorded_data[j]) :
          recorded_data[j][i] = <<4, -4>>
    /\ outcome[1].value.frames = <<0, 0, 0, 0, 0>>

\* C17 as claimed: what capture_audio ends with does not depend on the
\* level callback: no call ends with an error that the level callback
\* caused.
C17_LevelCallbackNeverFailsCapture ==
    \A w \in Workers :
        pc[w] = "done" => outcome[w].exc.cause # "level callback"

\* The magnitudes of the mono samples the encoder works on, and of the
\* samples of the container returned.
MonoMagnitudes ==
    LET frames == Concatenate(recorded_data)
    IN [i \in 1..Len(frames) |->
           IF SumSeq(frames[i]) < 0 THEN -SumSeq(frames[i]) ELSE SumSeq(frames[i])]

OutMagnitude(x) == IF x < 0 THEN -x ELSE x

\* C18 as claimed: whenever the encoder is given a list of at least one
\* chunk it returns a container; every sample of it has magnitude at most
\* 29490, and when the input is not silent the samples at the input's
\* peak have magnitude 29490.
C18_EncodeSucceedsWithPeak ==
    \A w \in Workers :
        (pc[w] = "done" /\ outcome[w].exit # "none" /\ recorded_data # <<>>)
            => /\ outcome[w].kind = "returned"
               /\ LET out == outcome[w].value.frames
                      mags == MonoMagnitudes
                  IN /\ Len(out) = Len(mags)
                     /\ \A i \in 1..Len(out) :
                           /\ OutMagnitude(out[i]) <= 29490
                           /\ (mags[i] > 0 /\ \A j \in 1..Len(mags) : mags[j] <= mags[i])
                                 => OutMagnitude(out[i]) = 29490

\* C18 where the chunks hold at least one frame: it holds there.
C18_EncodeSucceedsWithPeakOfFrames ==
    \A w \in Workers :
        (pc[w] = "done" /\ outcome[w].exit # "none" /\ FramesHeld >= 1)
            => /\ outcome[w].kind = "returned"
               /\ LET out == outcome[w].value.frames
                      mags == MonoMagnitudes
                  IN /\ Len(out) = Len(mags)
                     /\ \A i \in 1..Len(out) :
                           /\ OutMagnitude(out[i]) <= 29490
                           /\ (mags[i] > 0 /\ \A j \in 1..Len(mags) : mags[j] <= mags[i])
                                 => OutMagnitude(out[i]) = 29490

RoundDiv(a, b) ==
    IF a >= 0 THEN (2 * a + b) \div (2 * b) ELSE -((2 * (-a) + b) \div (2 * b))

\* The quotient a / b, b > 0, truncated toward zero.
TowardZero(a, b) == IF a >= 0 THEN a \div b ELSE -((-a) \div b)

\* The peak of a mono recording, in units of 1/SampleDen.
MonoPeak(frames) ==
    CHOOSE x \in 0..(2 * SampleDen) :
        /\ \E i \in 1..Len(frames) : x = frames[i][1] \/ x = -frames[i][1]
        /\ \A i \in 1..Len(frames) : frames[i][1] <= x /\ -frames[i][1] <= x

\* C21 as claimed: each sample stored is round(x * 32767), x the sample
\* normalised to 0.9 of the peak.
C21_QuantizationRounds ==
    \A w \in Workers :
        (pc[w] = "done" /\ outcome[w].kind = "returned" /\ channels = 1)
            => LET frames == Concatenate(recorded_data)
                   peak == MonoPeak(frames)
               IN \A i \in 1..Len(frames) :
                     peak > 0 => outcome[w].value.frames[i]
                                   = RoundDiv(frames[i][1] * 9 * 32767, 10 * peak)

\* What the code stores: x * 32767 truncated toward zero.
C21_QuantizationTruncates ==
    \A w \in Workers :
        (pc[w] = "done" /\ outcome[w].kind = "returned" /\ channels = 1)
            => LET frames == Concatenate(recorded_data)
                   peak == MonoPeak(frames)
               IN \A i \in 1..Len(frames) :
                     peak > 0 => outcome[w].value.frames[i]
                                   = TowardZero(frames[i][1] * 9 * 32767, 10 * peak)

\* The frames asked of the device by the reads of a session, in order.
RECURSIVE Requested(_)
Requested(ev) ==
    IF ev = <<>> THEN <<>>
    ELSE IF Head(ev).kind = "append"
         THEN <<Head(ev).requested>> \o Requested(Tail(ev))
         ELSE Requested(Tail(ev))

\* C22: in the loop frames_recorded never exceeds total_frames, which is
\* int(duration * sample_rate); each read asks for the smaller of
\* int(sample_rate * 0.05) and the frames still to record; and when the
\* loop ends with no cancellation the frames asked for add up to
\* total_frames.
C22_NeverOvershoots ==
    \A w \in Workers :
        /\ pc[w] \in LoopPcs \cup {"convert"}
              => /\ loc[w].total_frames = (loc[w].duration * sample_rate) \div DurDen
                 /\ loc[w].frames_recorded <= loc[w].total_frames
                 /\ SumSeq(Requested(events[w])) <= loc[w].total_frames
        /\ pc[w] = "record"
              => LET chunk == (sample_rate * 5) \div 100
                     left  == loc[w].total_frames - loc[w].frames_recorded
                 IN loc[w].frames_to_record = IF chunk <= left THEN chunk ELSE left
        /\ (pc[w] = "convert" /\ loc[w].exit = "completed")
              => SumSeq(Requested(events[w])) = loc[w].total_frames

\* A window of 5 frames was read as 2, 2 and 1 frames.
C22_Witness ==
    /\ pc[1] = "convert"
    /\ loc[1].exit = "completed"
    /\ loc[1].total_frames = 5
    /\ Requested(events[1]) = <<2, 2, 1>>

\* C23 as claimed: every iteration of the loop makes progress: each read
\* asks for at least one frame, so the loop ends after at most
\* ceil(total_frames / chunk_size) chunks.
C23_EveryReadMakesProgress ==
    \A w \in Workers :
        /\ pc[w] = "record" => loc[w].frames_to_record >= 1
        /\ \A i \in Appends(w) : events[w][i].requested >= 1

\* C23 where chunk_size >= 1: it holds there, and the chunks of a session
\* are at most ceil(total_frames / chunk_size).
C23_EveryReadMakesProgressOfFrames ==
    \A w \in Workers :
        (pc[w] \in LoopPcs /\ loc[w].chunk_size >= 1)
            => /\ pc[w] = "record" => loc[w].frames_to_record >= 1
               /\ \A i \in Appends(w) : events[w][i].requested >= 1
               /\ Cardinality(Appends(w)) * loc[w].chunk_size
                     < loc[w].total_frames + loc[w].chunk_size

\* Whether a microphone has the loopback flag or one of the five keywords
\* in its name, whatever the case of the letters.
HasFlagOrKeyword(mic) ==
    \/ mic.isloopback
    \/ \E kw \in { <<"l","o","o","p","b","a","c","k">>,
                    <<"m","o","n","i","t","o","r">>,
                    <<"b","l","a","c","k","h","o","l","e">>,
                    <<"s","o","u","n","d","f","l","o","w","e","r">>,
                    <<"m","u","l","t","i","-","o","u","t","p","u","t">> } :
          \E i \in 0..(Len(mic.name) - Len(kw)) :
             \A j \in 1..Len(kw) : LowerChar(mic.name[i + j]) = kw[j]

\* C24: the device recorded from has the flag or a keyword, and the call
\* fails for want of a loopback device only on a machine where no
\* microphone has the flag or a keyword.
C24_CandidateIffFlagOrKeyword ==
    /\ pc[1] = "open" => HasFlagOrKeyword(all_mics[loc[1].loopback])
    /\ (pc[1] = "except" /\ loc[1].exc.type = "AudioCaptureError")
          => \A i \in 1..Len(all_mics) : ~HasFlagOrKeyword(all_mics[i])
    /\ (pc[1] = "except" /\ loc[1].exc.type = "RuntimeError")
          => loc[1].exc.msg = "audio subsystem"

\* The microphone "MONITOR", listed after a plain microphone and with no
\* flag, is recorded from.
C24_Witness ==
    /\ pc[1] = "open"
    /\ Len(all_mics) >= 2
    /\ all_mics[1] = Microphone(Mic, FALSE)
    /\ all_mics[2] = Microphone(UpperMonitor, FALSE)
    /\ loc[1].loopback = 2

\* C25: from its reset on, the chunk list of a call holds the chunks the
\* call has read, one per read and in read order, and nothing else; the
\* container returned is the encoding of that list.
C25_StartsFromEmptyList ==
    \A w \in Workers :
        pc[w] \in (InCapture \ {"reset"}) \cup {"done"}
            => /\ Len(recorded_data) = Cardinality(Appends(w))
               /\ \A i \in Appends(w) :
                     events[w][i].pos = Cardinality({j \in Appends(w) : j <= i})
               /\ pc[w] = "level"
                     => recorded_data[Len(recorded_data)] = loc[w].data
               /\ (pc[w] = "done" /\ outcome[w].kind = "returned")
                     => /\ Len(outcome[w].value.frames) = FramesHeld
                        /\ FramesHeld <= outcome[w].total_frames

\* The second call on the engine returned the two chunks it read, after a
\* first call that had read chunks of its own.
C25_Witness ==
    /\ sessions = 2
    /\ reads = 5
    /\ pc[1] = "done"
    /\ outcome[1].kind = "returned"
    /\ Len(recorded_data) = 2
    /\ FramesHeld >= 2

\* C30: a capture whose window holds no frame reads nothing from the
\* device, calls neither callback, and raises AudioCaptureError for the
\* empty recording.
C30_EmptyWindowFails ==
    \A w \in Workers :
        /\ (pc[w] \in LoopPcs \cup {"convert"} /\ loc[w].total_frames = 0)
              => /\ pc[w] \in {"loop", "convert"}
                 /\ events[w] = <<>>
                 /\ recorded_data = <<>>
        /\ (pc[w] = "done" /\ outcome[w].exit # "none"
            /\ outcome[w].total_frames = 0)
              => /\ events[w] = <<>>
                 /\ IsCaptureError(outcome[w])
                 /\ outcome[w].exc.cause = "No audio data recorded"

\* A capture of 0.075 s at 10 Hz, with both callbacks installed, failed
\* for the empty recording.
C30_Witness ==
    /\ pc[1] = "done"
    /\ sample_rate = 10
    /\ outcome[1].duration = 3
    /\ outcome[1].total_frames = 0
    /\ outcome[1].exit = "completed"
    /\ level_callback = "ok"
    /\ IsCaptureError(outcome[1])
    /\ events[1] = <<>>

\* The chunks a thread appended after a _stop_listening ended its session.
AppendsAfterUserStop(w) == {i \in Appends(w) : events[w][i].stopped}

\* C26 as claimed: a user STOP is never lost: once _stop_listening has run
\* stop_recording(), the thread started by _start_listening appends at most
\* one more chunk, also when the STOP comes before the thread has set the
\* recording flag.
C26_UserStopNeverLost ==
    \A w \in Workers : stopped[w] => Cardinality(AppendsAfterUserStop(w)) <= 1

\* C27 as claimed: a thread whose session the user stopped never calls
\* api_client.identify, whatever the user does next.
C27_StoppedSessionNotSubmitted ==
    \A w \in Workers : pc[w] = "identify" => ~stopped[w]

\* C28 as claimed: a session the user did not stop is never cut short (its
\* loop never ends on a cleared recording flag) and its result is never
\* discarded (having returned audio, its thread goes on to identify).
C28_FinishingWorkerAffectsOwnSessionOnly ==
    /\ [](\A w \in Workers :
             (pc[w] = "done" /\ ~stopped[w]) => outcome[w].exit # "cancelled")
    /\ [][\A w \in Workers :
             (pc[w] = "done" /\ ~stopped[w] /\ outcome[w].kind = "returned")
                 => pc'[w] # "finish"]_vars

\* A step that starts a thread running _record_and_identify.
StartsThread == \E w \in Workers : pc[w] = "idle" /\ pc'[w] = "call"

\* A step in which a restart timer fires.
TimerFires == timers' = timers - 1

\* A step of a click handler: no signal is delivered or queued, no timer is
\* set or fires, and no thread moves except one that is started.
IsClick ==
    /\ UNCHANGED <<timers, finish_queued>>
    /\ \A w \in Workers : pc'[w] # pc[w] => (pc[w] = "idle" /\ pc'[w] = "call")

\* C29: in continuous mode a capture is started without a click only by a
\* restart timer, which is pending only after a session has finished, and
\* only when the continuous button is checked and _is_listening is false at
\* that moment; STOP unchecks the button and clears continuous mode, only a
\* click checks the button again, and so after STOP no timer, however many
\* are pending, starts a capture until the user acts.
C29_AutoRestartOnlyWhenChecked ==
    /\ [](timers + finish_queued > 0 => sessions >= 1)
    /\ [][(StartsThread /\ ~IsClick) =>
             (TimerFires /\ timers > 0 /\ continuous_checked /\ ~is_listening)]_vars
    /\ [][(TimerFires /\ ~continuous_checked) => ~StartsThread]_vars
    /\ [][(is_listening /\ ~is_listening' /\ IsClick) =>
             (~continuous_checked' /\ ~is_continuous')]_vars
    /\ [][(~continuous_checked /\ continuous_checked') => IsClick]_vars

\* A restart timer has started the second session of continuous mode.
C29_Witness ==
    /\ last_timer = "restarted"
    /\ sessions = 1
    /\ continuous_checked
    /\ is_listening
    /\ \E w \in Workers : pc[w] = "call"

\* A restart timer that was pending when the button was unchecked has fired
\* and started nothing.
C29_WitnessAfterStop ==
    /\ last_timer = "refused"
    /\ ~continuous_checked
    /\ ~is_listening
    /\ \A w \in Workers : pc[w] = "idle"

\* C7 as claimed: at most one thread is inside capture_audio at any time.
C7_OneSessionAtATime ==
    Cardinality({w \in Workers : pc[w] \in InCapture}) <= 1

=============================================================================
